---- MODULE Spec2Model ----
(***************************************************************************)
(* zk-bridge: the on-chain verification program                            *)
(* (packages/solana-program) and the batch accumulator / submission queue  *)
(* of the relayer (packages/submission-manager).                           *)
(*                                                                         *)
(* Byte arrays ([u8; 32], Pubkey) are small naturals; 0 is the all-zero    *)
(* array.  u64 amounts are two base-10^6 limbs [hi, lo] (value             *)
(* hi * 10^6 + lo), since 1_000_000_000_000 does not fit a TLC integer.    *)
(* SHA-256 is collision free: a digest is the record holding its           *)
(* preimage.                                                               *)
(***************************************************************************)
EXTENDS Integers, Sequences, FiniteSets, TLC

VARIABLES
    state,              \* LcState account (PDA "lc_state")
    verifying_key,      \* VerifyingKey account (PDA "vk", 0)
    nullifier_accounts, \* NullifierState accounts, keyed by the nullifier seed
    event_accounts,     \* EventState accounts, keyed by the event_id seed
    emitted,            \* TonEventVerified log of the committed transactions
    call,               \* the instruction last executed and its Result, until confirmed
    accepted,           \* history: arguments of the verify_ton_event calls that returned Ok
    lastUpdate,         \* history: the last committed update_ton_root: Len(accepted)
                        \* at that time and the root it replaced (0: none yet)
    config,             \* OrchestratorConfig: batch_size, max_retries
    current_batch,      \* BatchManager.current_batch of each SubmissionManager (Option)
    queue,              \* QueueManager.batches of each SubmissionManager
    is_running,         \* start() has spawned the batch processing task
    pc,                 \* where the batch processing task is in its loop
    in_flight,          \* the batch dequeued by process_queued_batches (Option)
    db,                 \* deposits table: deposit_id -> [status, error_message];
                        \* error_message: None, or the parts of the text
    now,                \* Utc::now(), in seconds
    addLog,             \* history: the (deposit, proof) pairs passed to add_to_batch
    ret,                \* the method last called (BatchManager, QueueManager,
                        \* SolanaClient) and what it returned
    enqueued,           \* history: the batches passed to enqueue_batch, in order
    dequeued,           \* history: the batches dequeue_batch returned, in order
    mutex,              \* Arc<Mutex<SubmissionManager>>: the request task that holds
                        \* the guard (Option)
    handler             \* the request tasks of the HTTP server: where each one is

chainVars == <<state, verifying_key, nullifier_accounts, event_accounts, emitted,
               call, accepted, lastUpdate>>

queueLog == <<enqueued, dequeued>>

httpVars == <<mutex, handler>>

pipeVars == <<config, current_batch, queue, is_running, pc, in_flight, db, now, addLog,
              ret, queueLog, httpVars>>

vars == <<chainVars, pipeVars>>

----------------------------------------------------------------------------
(* Bounds of the model *)

MaxSlot == 2        \* slots 0 .. MaxSlot
MaxBatchSize == 2   \* batch_size 0 .. MaxBatchSize
MaxRetries == 1     \* max_retries 0 .. MaxRetries
MaxAdds == 2        \* add_to_batch calls in a run of the submission manager
MaxAccAdds == 3     \* add_to_batch calls in a run of a BatchManager alone
MaxNow == 121       \* the clock stops here
MaxEnqueues == 3    \* enqueue_batch calls in a run of a QueueManager alone
MaxHandlers == 2    \* request tasks of the HTTP server at a time

(* Program constants *)

MAX_FEE_BPS == 1000
MAX_AMOUNT == [hi |-> 1000000, lo |-> 0]

----------------------------------------------------------------------------
(* Values *)

ZERO32 == 0
TxHashes == {0, 1}
Senders == {1, 2}
Domains == {1, 2}
TokenIds == {1, 2}
Pubkeys == {1, 2, 3}
Recipients == {1, 2}
Roots == {1, 2}
Nullifiers == {0, 1, 2}
Amounts == {[hi |-> 0, lo |-> 0], [hi |-> 0, lo |-> 1],
            [hi |-> 1000000, lo |-> 0], [hi |-> 1000000, lo |-> 1]}
FeeBps == {1000, 1001}
VkVersions == {0, 1}
Slots == 0..MaxSlot
GroupElems == {<<0, 0>>, <<0, 7>>}   \* [u8; 64] / [u8; 128], shortened
SlotProofs == {<<170, 170>>, <<170, 0>>}   \* [u8; 32], shortened; 0xAA = 170

AmountGtZero(a) == a.hi > 0 \/ a.lo > 0
AmountLe(a, b) == a.hi < b.hi \/ (a.hi = b.hi /\ a.lo <= b.lo)
AllBytes(arr, v) == \A i \in 1..Len(arr) : arr[i] = v

NoCall == [op |-> "none"]

----------------------------------------------------------------------------
(* zk_verifier.rs *)

\* Mutant: the preimage leaves out the domain tag.
hash_event_components_no_domain(token_id, amount_in_ton, recipient_solana, fee_bps, vk_version, domain) ==
    [sha256 |-> <<"TON_EVENT", token_id, amount_in_ton, recipient_solana, fee_bps,
                  vk_version>>]

hash_event_components(token_id, amount_in_ton, recipient_solana, fee_bps, vk_version, domain) ==
    [sha256 |-> <<"TON_EVENT", token_id, amount_in_ton, recipient_solana, fee_bps,
                  vk_version, domain>>]

generate_nullifier(ton_tx_hash, ton_sender) ==
    [sha256 |-> <<"NULLIFIER", ton_tx_hash, ton_sender>>]

ZeroDigest == [sha256 |-> <<>>]   \* an event_id of 32 zero bytes

EventIdOf(pi) ==
    hash_event_components(pi.token_id, pi.amount_in_ton, pi.recipient_solana,
                          pi.fee_bps, pi.vk_version, pi.domain)

\* Mutant: the anchor root is not compared with the stored root.
validate_public_inputs_no_root(public_inputs, current_ton_root) ==
    IF ~AmountGtZero(public_inputs.amount_in_ton) THEN "InvalidAmount"
    ELSE IF ~AmountLe(public_inputs.amount_in_ton, MAX_AMOUNT) THEN "InvalidAmount"
    ELSE IF ~(public_inputs.fee_bps <= MAX_FEE_BPS) THEN "InvalidFee"
    ELSE IF public_inputs.event_id # EventIdOf(public_inputs) THEN "InvalidEventId"
    ELSE "Ok"

\* Mutant: the amount has no upper limit.
validate_public_inputs_no_max(public_inputs, current_ton_root) ==
    IF public_inputs.anchor_root # current_ton_root THEN "InvalidAnchorRoot"
    ELSE IF ~AmountGtZero(public_inputs.amount_in_ton) THEN "InvalidAmount"
    ELSE IF ~(public_inputs.fee_bps <= MAX_FEE_BPS) THEN "InvalidFee"
    ELSE IF public_inputs.event_id # EventIdOf(public_inputs) THEN "InvalidEventId"
    ELSE "Ok"

validate_public_inputs(public_inputs, current_ton_root) ==
    IF public_inputs.anchor_root # current_ton_root THEN "InvalidAnchorRoot"
    ELSE IF ~AmountGtZero(public_inputs.amount_in_ton) THEN "InvalidAmount"
    ELSE IF ~AmountLe(public_inputs.amount_in_ton, MAX_AMOUNT) THEN "InvalidAmount"
    ELSE IF ~(public_inputs.fee_bps <= MAX_FEE_BPS) THEN "InvalidFee"
    ELSE IF public_inputs.event_id # EventIdOf(public_inputs) THEN "InvalidEventId"
    ELSE "Ok"

mock_verify_proof(proof, public_inputs) ==
    LET proof_valid == /\ ~AllBytes(proof.a, 0)
                       /\ ~AllBytes(proof.b, 0)
                       /\ ~AllBytes(proof.c, 0)
    IN  IF ~proof_valid THEN "BadProof"
        ELSE IF public_inputs.nullifier = ZERO32 THEN "InvalidNullifier"
        ELSE IF public_inputs.ton_tx_hash = ZERO32 THEN "InvalidTonTxHash"
        ELSE "Ok"

\* Mutant: the proof elements, nullifier and tx hash are checked before the
\* public inputs.
verify_ton_event_proof_proof_first(proof, public_inputs, current_ton_root, verification_key) ==
    LET m == mock_verify_proof(proof, public_inputs)
    IN  IF m # "Ok" THEN m ELSE validate_public_inputs(public_inputs, current_ton_root)

verify_ton_event_proof(proof, public_inputs, current_ton_root, verification_key) ==
    LET v == validate_public_inputs(public_inputs, current_ton_root)
    IN  IF v # "Ok" THEN v ELSE mock_verify_proof(proof, public_inputs)

(* verify.rs *)

\* Mutant: the slot may stay where it is.
verify_mock_not_strict(proof, old_slot, new_slot) ==
    IF ~(new_slot >= old_slot) THEN "SlotGoesBackwards"
    ELSE IF ~AllBytes(proof, 170) THEN "BadProof"
    ELSE "Ok"

verify_mock(proof, old_slot, new_slot) ==
    IF ~(new_slot > old_slot) THEN "SlotGoesBackwards"
    ELSE IF ~AllBytes(proof, 170) THEN "BadProof"
    ELSE "Ok"

----------------------------------------------------------------------------
(* The accounts a transaction reads and writes *)

Ledger == [state |-> state, verifying_key |-> verifying_key,
           nullifier_accounts |-> nullifier_accounts,
           event_accounts |-> event_accounts, emitted |-> emitted]

\* A freshly created account holds zeroed data.
NewNullifierState == [consumed |-> FALSE, nullifier |-> ZERO32, ton_tx_hash |-> ZERO32]
NewEventState == [consumed |-> FALSE, event_id |-> ZeroDigest, recipient |-> 0,
                  amount |-> [hi |-> 0, lo |-> 0], ton_tx_hash |-> ZERO32,
                  ton_sender |-> ZERO32]

init_if_needed(accounts, seed, fresh) ==
    IF seed \in DOMAIN accounts THEN accounts ELSE accounts @@ (seed :> fresh)

\* #[derive(Accounts)] VerifyTonEvent: both PDAs are created when missing,
\* before the handler body runs.
VerifyTonEvent(ledger, public_inputs) ==
    [ledger EXCEPT
        !.event_accounts = init_if_needed(@, public_inputs.event_id, NewEventState),
        !.nullifier_accounts = init_if_needed(@, public_inputs.nullifier, NewNullifierState)]

\* An instruction that returns Err aborts its transaction: every account write,
\* account creation and log entry of the transaction is discarded.
\* Mutant: the accounts written before the error are kept.
TransactionNoRollback(pre, out) == out.ledger

Transaction(pre, out) == IF out.res = "Ok" THEN out.ledger ELSE pre

----------------------------------------------------------------------------
(* lib.rs: instruction handlers, as functions of the loaded accounts *)

\* Mutant: the nullifier account's consumed flag is not checked.
verify_ton_event_handler_no_check(ledger, proof, public_inputs) ==
    LET r == verify_ton_event_proof(proof, public_inputs, ledger.state.ton_state_root,
                                    ledger.verifying_key.data)
    IN  IF r # "Ok" THEN [res |-> r, ledger |-> ledger]
        ELSE [res |-> "Ok",
              ledger |-> [ledger EXCEPT
                !.nullifier_accounts[public_inputs.nullifier] =
                    [consumed |-> TRUE,
                     nullifier |-> public_inputs.nullifier,
                     ton_tx_hash |-> public_inputs.ton_tx_hash],
                !.event_accounts[public_inputs.event_id] =
                    [consumed |-> TRUE,
                     event_id |-> public_inputs.event_id,
                     recipient |-> public_inputs.recipient_solana,
                     amount |-> public_inputs.amount_in_ton,
                     ton_tx_hash |-> public_inputs.ton_tx_hash,
                     ton_sender |-> public_inputs.ton_sender],
                !.emitted = Append(@,
                    [event_id |-> public_inputs.event_id,
                     recipient |-> public_inputs.recipient_solana,
                     amount |-> public_inputs.amount_in_ton,
                     ton_tx_hash |-> public_inputs.ton_tx_hash,
                     ton_sender |-> public_inputs.ton_sender])]]

\* Mutant: the event is recorded without the TonEventVerified notification.
verify_ton_event_handler_no_emit(ledger, proof, public_inputs) ==
    LET r == verify_ton_event_proof(proof, public_inputs, ledger.state.ton_state_root,
                                    ledger.verifying_key.data)
        nullifier_account == ledger.nullifier_accounts[public_inputs.nullifier]
    IN  IF r # "Ok" THEN [res |-> r, ledger |-> ledger]
        ELSE IF nullifier_account.consumed
        THEN [res |-> "EventAlreadyConsumed", ledger |-> ledger]
        ELSE [res |-> "Ok",
              ledger |-> [ledger EXCEPT
                !.nullifier_accounts[public_inputs.nullifier] =
                    [consumed |-> TRUE,
                     nullifier |-> public_inputs.nullifier,
                     ton_tx_hash |-> public_inputs.ton_tx_hash],
                !.event_accounts[public_inputs.event_id] =
                    [consumed |-> TRUE,
                     event_id |-> public_inputs.event_id,
                     recipient |-> public_inputs.recipient_solana,
                     amount |-> public_inputs.amount_in_ton,
                     ton_tx_hash |-> public_inputs.ton_tx_hash,
                     ton_sender |-> public_inputs.ton_sender]]]

\* Mutant: a repeated call is answered Ok without effect.
verify_ton_event_handler_repeat_ok(ledger, proof, public_inputs) ==
    LET r == verify_ton_event_proof(proof, public_inputs, ledger.state.ton_state_root,
                                    ledger.verifying_key.data)
        nullifier_account == ledger.nullifier_accounts[public_inputs.nullifier]
    IN  IF r # "Ok" THEN [res |-> r, ledger |-> ledger]
        ELSE IF nullifier_account.consumed
        THEN [res |-> "Ok", ledger |-> ledger]
        ELSE [res |-> "Ok",
              ledger |-> [ledger EXCEPT
                !.nullifier_accounts[public_inputs.nullifier] =
                    [consumed |-> TRUE,
                     nullifier |-> public_inputs.nullifier,
                     ton_tx_hash |-> public_inputs.ton_tx_hash],
                !.event_accounts[public_inputs.event_id] =
                    [consumed |-> TRUE,
                     event_id |-> public_inputs.event_id,
                     recipient |-> public_inputs.recipient_solana,
                     amount |-> public_inputs.amount_in_ton,
                     ton_tx_hash |-> public_inputs.ton_tx_hash,
                     ton_sender |-> public_inputs.ton_sender],
                !.emitted = Append(@,
                    [event_id |-> public_inputs.event_id,
                     recipient |-> public_inputs.recipient_solana,
                     amount |-> public_inputs.amount_in_ton,
                     ton_tx_hash |-> public_inputs.ton_tx_hash,
                     ton_sender |-> public_inputs.ton_sender])]]

verify_ton_event_handler(ledger, proof, public_inputs) ==
    LET r == verify_ton_event_proof(proof, public_inputs, ledger.state.ton_state_root,
                                    ledger.verifying_key.data)
        nullifier_account == ledger.nullifier_accounts[public_inputs.nullifier]
    IN  IF r # "Ok" THEN [res |-> r, ledger |-> ledger]
        ELSE IF nullifier_account.consumed
        THEN [res |-> "EventAlreadyConsumed", ledger |-> ledger]
        ELSE [res |-> "Ok",
              ledger |-> [ledger EXCEPT
                !.nullifier_accounts[public_inputs.nullifier] =
                    [consumed |-> TRUE,
                     nullifier |-> public_inputs.nullifier,
                     ton_tx_hash |-> public_inputs.ton_tx_hash],
                !.event_accounts[public_inputs.event_id] =
                    [consumed |-> TRUE,
                     event_id |-> public_inputs.event_id,
                     recipient |-> public_inputs.recipient_solana,
                     amount |-> public_inputs.amount_in_ton,
                     ton_tx_hash |-> public_inputs.ton_tx_hash,
                     ton_sender |-> public_inputs.ton_sender],
                !.emitted = Append(@,
                    [event_id |-> public_inputs.event_id,
                     recipient |-> public_inputs.recipient_solana,
                     amount |-> public_inputs.amount_in_ton,
                     ton_tx_hash |-> public_inputs.ton_tx_hash,
                     ton_sender |-> public_inputs.ton_sender])]]

\* Mutant: only the admin may update the root.
update_ton_root_handler_admin_only(ledger, signer, new_ton_root) ==
    IF ~(signer = ledger.state.admin)
    THEN [res |-> "UnauthorizedRelayer", ledger |-> ledger]
    ELSE [res |-> "Ok", ledger |-> [ledger EXCEPT !.state.ton_state_root = new_ton_root]]

update_ton_root_handler(ledger, signer, new_ton_root) ==
    IF ~(signer = ledger.state.admin \/ signer = ledger.state.relayer)
    THEN [res |-> "UnauthorizedRelayer", ledger |-> ledger]
    ELSE [res |-> "Ok", ledger |-> [ledger EXCEPT !.state.ton_state_root = new_ton_root]]

verify_update_handler(ledger, new_slot, proof) ==
    LET r == verify_mock(proof, ledger.state.last_verified_slot, new_slot)
    IN  IF r # "Ok" THEN [res |-> r, ledger |-> ledger]
        ELSE [res |-> "Ok", ledger |-> [ledger EXCEPT !.state.last_verified_slot = new_slot]]

----------------------------------------------------------------------------
(* Calls the model makes *)

PublicInputs == [domain : Domains, anchor_root : Roots, event_id : {ZeroDigest},
                 token_id : TokenIds, amount_in_ton : Amounts,
                 recipient_solana : Recipients, fee_bps : FeeBps,
                 vk_version : VkVersions, ton_tx_hash : TxHashes, ton_sender : Senders,
                 nullifier : Nullifiers]

Proofs == [a : GroupElems, b : GroupElems, c : GroupElems]

\* The reference call: well formed, accepted on a ledger whose root is 1.
RefFields == [domain |-> 1, anchor_root |-> 1, event_id |-> ZeroDigest, token_id |-> 1,
              amount_in_ton |-> [hi |-> 0, lo |-> 1], recipient_solana |-> 1,
              fee_bps |-> 1000, vk_version |-> 0, ton_tx_hash |-> 1, ton_sender |-> 1,
              nullifier |-> 1]
RefInputs == [RefFields EXCEPT !.event_id = EventIdOf(RefFields)]
RefProof == [a |-> <<0, 7>>, b |-> <<0, 7>>, c |-> <<0, 7>>]

\* The number of fields in which a call differs from the reference call.
Dev(proof, public_inputs) ==
    Cardinality({f \in DOMAIN RefInputs : public_inputs[f] # RefInputs[f]})
        + Cardinality({f \in DOMAIN RefProof : proof[f] # RefProof[f]})

\* event_id is the digest of the call's own fields, the digest of the reference
\* call's fields (a field was changed without updating event_id), or zero bytes.
EventIdChoices(p) == {EventIdOf(p), RefInputs.event_id, ZeroDigest}

\* The calls made: the reference call and every call that differs from it in one
\* or two fields.
VerifyCalls ==
    {c \in UNION {[proof : Proofs, public_inputs : {[p EXCEPT !.event_id = e] :
                                                    e \in EventIdChoices(p)}] :
                  p \in PublicInputs} :
        Dev(c.proof, c.public_inputs) <= 2}

----------------------------------------------------------------------------
(* Actions *)

Commit(post) ==
    /\ state' = post.state
    /\ verifying_key' = post.verifying_key
    /\ nullifier_accounts' = post.nullifier_accounts
    /\ event_accounts' = post.event_accounts
    /\ emitted' = post.emitted

verify_ton_event(proof, public_inputs) ==
    /\ call = NoCall
    /\ LET out == verify_ton_event_handler(VerifyTonEvent(Ledger, public_inputs),
                                           proof, public_inputs)
       IN  /\ Commit(Transaction(Ledger, out))
           /\ call' = [op |-> "verify_ton_event", proof |-> proof,
                       public_inputs |-> public_inputs, res |-> out.res]
           /\ accepted' = IF out.res = "Ok"
                          THEN Append(accepted, [proof |-> proof,
                                                 public_inputs |-> public_inputs])
                          ELSE accepted
    /\ UNCHANGED <<lastUpdate, pipeVars>>

update_ton_root(signer, new_ton_root) ==
    /\ call = NoCall
    /\ LET out == update_ton_root_handler(Ledger, signer, new_ton_root)
       IN  /\ Commit(Transaction(Ledger, out))
           /\ call' = [op |-> "update_ton_root", signer |-> signer,
                       new_ton_root |-> new_ton_root, res |-> out.res]
           /\ lastUpdate' = IF out.res = "Ok"
                            THEN [accepted |-> Len(accepted),
                                  replaced |-> state.ton_state_root]
                            ELSE lastUpdate
    /\ UNCHANGED <<accepted, pipeVars>>

verify_update(new_slot, proof) ==
    /\ call = NoCall
    /\ LET out == verify_update_handler(Ledger, new_slot, proof)
       IN  /\ Commit(Transaction(Ledger, out))
           /\ call' = [op |-> "verify_update", new_slot |-> new_slot, proof |-> proof,
                       res |-> out.res]
    /\ UNCHANGED <<accepted, lastUpdate, pipeVars>>

\* The caller takes the Result of its transaction; the next instruction follows.
Confirm ==
    /\ call # NoCall
    /\ call' = NoCall
    /\ UNCHANGED <<state, verifying_key, nullifier_accounts, event_accounts, emitted,
                   accepted, lastUpdate, pipeVars>>

\* init_state(vk_id, initial_ton_root, relayer), signed by the payer.
init_state(payer, vk_id, initial_ton_root, relayer) ==
    /\ state = [admin |-> payer, last_verified_slot |-> 0, vk_id |-> vk_id,
                ton_state_root |-> initial_ton_root, relayer |-> relayer]
    /\ verifying_key = [vk_id |-> vk_id, data |-> <<>>]

ChainInit(roots) ==
    /\ \E initial_ton_root \in roots : init_state(1, 0, initial_ton_root, 2)
    /\ nullifier_accounts = <<>>
    /\ event_accounts = <<>>
    /\ emitted = <<>>
    /\ call = NoCall
    /\ accepted = <<>>
    /\ lastUpdate = [accepted |-> 0, replaced |-> 0]

VerifyTonEventCall == \E c \in VerifyCalls : verify_ton_event(c.proof, c.public_inputs)
UpdateTonRootCall == \E signer \in Pubkeys, r \in Roots : update_ton_root(signer, r)
VerifyUpdateCall == \E s \in Slots, proof \in SlotProofs : verify_update(s, proof)

----------------------------------------------------------------------------
(* submission-manager: values *)

Managers == {"main", "task"}   \* the SubmissionManager and the clone the task owns
DepositIds == {1, 2}
Deposits == [deposit_id : DepositIds]
ProofStrings == {"mock_proof", "proof_1"}
\* BATCH_SIZE is parsed as a usize and used as it is: 0 is a batch_size.
BatchSizes == 0..MaxBatchSize
TickSteps == {121}
StaleAge == 120

None == <<>>
Some(x) == <<x>>
NoRet == [op |-> "none"]
\* The request tasks warp spawns; Idle: no request is being handled.
Handlers == 1..MaxHandlers
Idle == [at |-> "idle"]

(* retry_engine.rs *)

\* Mutant: one retry more.
should_retry_inclusive(max_retries, current_retries) == current_retries <= max_retries

\* Mutant: a failed batch is always retried.
should_retry_always(max_retries, current_retries) == TRUE

should_retry(max_retries, current_retries) == current_retries < max_retries

(* batch_manager.rs: each method maps the Option<Batch> it holds to *)
(* [current_batch, ret].                                             *)

\* Mutant: the proof is put in front of the proofs already held.
add_to_batch_proof_first(batch_size, cur, deposit, proof, t) ==
    LET b0 == IF cur = None
              THEN [deposits |-> <<>>, proofs |-> <<>>, created_at |-> t, retry_count |-> 0]
              ELSE cur[1]
        b1 == [b0 EXCEPT !.deposits = Append(@, deposit), !.proofs = <<proof>> \o @]
    IN  IF Len(b1.deposits) >= batch_size
        THEN [current_batch |-> None, ret |-> Some(b1)]
        ELSE [current_batch |-> Some(b1), ret |-> None]

\* Mutant: the batch is sealed one deposit late.
add_to_batch_seal_late(batch_size, cur, deposit, proof, t) ==
    LET b0 == IF cur = None
              THEN [deposits |-> <<>>, proofs |-> <<>>, created_at |-> t, retry_count |-> 0]
              ELSE cur[1]
        b1 == [b0 EXCEPT !.deposits = Append(@, deposit), !.proofs = Append(@, proof)]
    IN  IF Len(b1.deposits) > batch_size
        THEN [current_batch |-> None, ret |-> Some(b1)]
        ELSE [current_batch |-> Some(b1), ret |-> None]

\* Mutant: the sealed batch is returned as a clone and stays in the open slot.
add_to_batch_keeps_slot(batch_size, cur, deposit, proof, t) ==
    LET b0 == IF cur = None
              THEN [deposits |-> <<>>, proofs |-> <<>>, created_at |-> t, retry_count |-> 0]
              ELSE cur[1]
        b1 == [b0 EXCEPT !.deposits = Append(@, deposit), !.proofs = Append(@, proof)]
    IN  IF Len(b1.deposits) >= batch_size
        THEN [current_batch |-> Some(b1), ret |-> Some(b1)]
        ELSE [current_batch |-> Some(b1), ret |-> None]

add_to_batch(batch_size, cur, deposit, proof, t) ==
    LET b0 == IF cur = None
              THEN [deposits |-> <<>>, proofs |-> <<>>, created_at |-> t, retry_count |-> 0]
              ELSE cur[1]
        b1 == [b0 EXCEPT !.deposits = Append(@, deposit), !.proofs = Append(@, proof)]
    IN  IF Len(b1.deposits) >= batch_size
        THEN [current_batch |-> None, ret |-> Some(b1)]
        ELSE [current_batch |-> Some(b1), ret |-> None]

\* Mutant: the batch is returned as a copy and stays in the slot.
finalize_batch_keeps_slot(cur) == [current_batch |-> cur, ret |-> cur]

finalize_batch(cur) == [current_batch |-> None, ret |-> cur]

\* Mutant: a batch whose age equals max_age is stale.
finalize_if_stale_at_age(cur, max_age, t) ==
    IF cur # None /\ t - cur[1].created_at >= max_age
    THEN [current_batch |-> None, ret |-> cur]
    ELSE [current_batch |-> cur, ret |-> None]

finalize_if_stale(cur, max_age, t) ==
    IF cur # None /\ t - cur[1].created_at > max_age
    THEN [current_batch |-> None, ret |-> cur]
    ELSE [current_batch |-> cur, ret |-> None]

(* queue_manager.rs *)

enqueue_batch(batches, batch) == Append(batches, batch)
enqueue_option(batches, opt) == IF opt = None THEN batches ELSE enqueue_batch(batches, opt[1])

\* Mutant: the batch enqueued last is taken (Vec::pop).
dequeue_batch_last(batches) ==
    IF batches = <<>> THEN [batches |-> batches, ret |-> None]
    ELSE [batches |-> SubSeq(batches, 1, Len(batches) - 1),
          ret |-> Some(batches[Len(batches)])]

dequeue_batch(batches) ==
    IF batches = <<>> THEN [batches |-> batches, ret |-> None]
    ELSE [batches |-> Tail(batches), ret |-> Some(Head(batches))]

get_queue_stats(batches) ==
    LET RECURSIVE Sum(_)
        Sum(q) == IF q = <<>> THEN 0 ELSE Len(Head(q).deposits) + Sum(Tail(q))
        total_deposits == Sum(batches)
    IN  [pending |-> total_deposits, processing |-> 0, completed |-> 0,
         total |-> total_deposits]

(* database.rs *)

store_deposit(table, deposit_id, status) ==
    IF deposit_id \in DOMAIN table
    THEN [table EXCEPT ![deposit_id] = [status |-> status, error_message |-> None]]
    ELSE table @@ (deposit_id :> [status |-> status, error_message |-> None])

update_deposit_status(table, deposit_id, status, error_message) ==
    IF deposit_id \in DOMAIN table
    THEN [table EXCEPT ![deposit_id] = [status |-> status, error_message |-> error_message]]
    ELSE table

\* update_deposit_status for the first k deposits of a batch, in order.
RECURSIVE UpdateFirst(_, _, _, _, _)
UpdateFirst(table, deposits, k, status, error_message) ==
    IF k = 0 THEN table
    ELSE update_deposit_status(UpdateFirst(table, deposits, k - 1, status, error_message),
                               deposits[k].deposit_id, status, error_message)

----------------------------------------------------------------------------
(* submission-manager lib.rs: SubmissionManager *)

\* add_deposit on the manager the HTTP server holds.  store_ok: store_deposit
\* returned Ok; outcome: what generate_proof returned; update_ok: the
\* update_deposit_status that follows a failed proof generation returned Ok.
add_deposit(deposit, store_ok, outcome, update_ok) ==
    /\ Len(addLog) < MaxAdds
    /\ IF ~store_ok
       THEN UNCHANGED <<db, current_batch, queue, addLog>>
       ELSE LET stored == store_deposit(db, deposit.deposit_id, "pending")
            IN  IF ~outcome.ok
                THEN /\ db' = IF update_ok
                                 THEN update_deposit_status(stored, deposit.deposit_id,
                                                            "failed", <<outcome.error>>)
                                 ELSE stored
                     /\ UNCHANGED <<current_batch, queue, addLog>>
                ELSE LET r == add_to_batch(config.batch_size, current_batch["main"],
                                           deposit, outcome.proof, now)
                     IN  /\ db' = stored
                         /\ current_batch' = [current_batch EXCEPT !["main"] = r.current_batch]
                         /\ queue' = [queue EXCEPT !["main"] = enqueue_option(@, r.ret)]
                         /\ addLog' = Append(addLog, <<deposit, outcome.proof>>)
    /\ UNCHANGED <<config, is_running, pc, in_flight, now, ret, queueLog, httpVars, chainVars>>

\* finalize_current_batch on the manager the HTTP server holds.
finalize_current_batch ==
    /\ LET r == finalize_batch(current_batch["main"])
       IN  /\ current_batch' = [current_batch EXCEPT !["main"] = r.current_batch]
           /\ queue' = [queue EXCEPT !["main"] = enqueue_option(@, r.ret)]
    /\ UNCHANGED <<config, is_running, pc, in_flight, db, now, addLog, ret, queueLog, httpVars, chainVars>>

\* start(): start_batch_processing moves a clone of the manager into the task.
\* Clone gives the clone a new BatchManager and a copy of the queue.
start ==
    /\ ~is_running
    /\ is_running' = TRUE
    /\ current_batch' = [current_batch EXCEPT !["task"] = None]
    /\ queue' = [queue EXCEPT !["task"] = queue["main"]]
    /\ pc' = "process"
    /\ UNCHANGED <<config, in_flight, db, now, addLog, ret, queueLog, httpVars, chainVars>>

\* The mutant of process_queued_batches: it takes the first batch and empties
\* the queue.
process_queued_batches_drain ==
    /\ pc = "process"
    /\ LET r == dequeue_batch(queue["task"])
       IN  /\ queue' = [queue EXCEPT !["task"] = <<>>]
           /\ in_flight' = r.ret
           /\ pc' = IF r.ret = None THEN "sweep" ELSE "submit"
    /\ UNCHANGED <<config, current_batch, is_running, db, now, addLog, ret, queueLog, httpVars, chainVars>>

\* process_queued_batches, up to the call of submit_batch.
process_queued_batches ==
    /\ pc = "process"
    /\ LET r == dequeue_batch(queue["task"])
       IN  /\ queue' = [queue EXCEPT !["task"] = r.batches]
           /\ in_flight' = r.ret
           /\ pc' = IF r.ret = None THEN "sweep" ELSE "submit"
    /\ UNCHANGED <<config, current_batch, is_running, db, now, addLog, ret, queueLog, httpVars, chainVars>>

\* Mutant: the retry re-enqueues the batch without its first deposit and proof.
handle_batch_submission_failure_subset(max_retries, batches, table, batch, error, k) ==
    IF should_retry(max_retries, batch.retry_count)
    THEN [batches |-> enqueue_batch(batches, [batch EXCEPT !.retry_count = @ + 1,
                                                           !.deposits = Tail(@),
                                                           !.proofs = Tail(@)]),
          db |-> table]
    ELSE [batches |-> batches,
          db |-> UpdateFirst(table, batch.deposits, k, "failed",
                             <<"Max retries exceeded", error>>)]

\* handle_batch_submission_failure; k: the update_deposit_status calls that return
\* Ok before one fails (all of them: k = Len(batch.deposits)).
\* It maps the queue and the deposits table to [batches, db].
handle_batch_submission_failure(max_retries, batches, table, batch, error, k) ==
    IF should_retry(max_retries, batch.retry_count)
    THEN [batches |-> enqueue_batch(batches, [batch EXCEPT !.retry_count = @ + 1]),
          db |-> table]
    ELSE [batches |-> batches,
          db |-> UpdateFirst(table, batch.deposits, k, "failed",
                             <<"Max retries exceeded", error>>)]

\* process_queued_batches, from the return of submit_batch.
submit_batch_returns(res, k) ==
    /\ pc = "submit"
    /\ LET batch == in_flight[1]
       IN  /\ k \in 0..Len(batch.deposits)
           /\ IF res = "Ok"
              THEN /\ db' = UpdateFirst(db, batch.deposits, k, "completed", None)
                   /\ UNCHANGED queue
              ELSE LET r == handle_batch_submission_failure(config.max_retries,
                                        queue["task"], db, batch, res, k)
                   IN  /\ queue' = [queue EXCEPT !["task"] = r.batches]
                       /\ db' = r.db
    /\ in_flight' = None
    /\ pc' = "sweep"
    /\ ret' = [op |-> "submit_batch", ret |-> res]
    /\ UNCHANGED <<config, current_batch, is_running, now, addLog, queueLog, httpVars, chainVars>>

\* finalize_stale_batch, the second half of the task's loop body.
finalize_stale_batch ==
    /\ pc = "sweep"
    /\ LET r == finalize_if_stale(current_batch["task"], StaleAge, now)
       IN  /\ current_batch' = [current_batch EXCEPT !["task"] = r.current_batch]
           /\ queue' = [queue EXCEPT !["task"] = enqueue_option(@, r.ret)]
    /\ pc' = "process"
    /\ UNCHANGED <<config, is_running, in_flight, db, now, addLog, ret, queueLog, httpVars, chainVars>>

Tick(d) ==
    /\ now + d <= MaxNow
    /\ now' = now + d
    /\ UNCHANGED <<config, current_batch, queue, is_running, pc, in_flight, db, addLog,
                   ret, queueLog, httpVars, chainVars>>

\* SubmissionManager::new(config)
PipeInit(batch_sizes, retries) ==
    /\ config \in [batch_size : batch_sizes, max_retries : retries]
    /\ current_batch = [m \in Managers |-> None]
    /\ queue = [m \in Managers |-> <<>>]
    /\ is_running = FALSE
    /\ pc = "idle"
    /\ in_flight = None
    /\ db = <<>>
    /\ now = 0
    /\ addLog = <<>>
    /\ ret = NoRet
    /\ enqueued = <<>>
    /\ dequeued = <<>>
    /\ mutex = None
    /\ handler = [h \in Handlers |-> Idle]

ProofOutcomes == {[ok |-> TRUE, proof |-> p] : p \in ProofStrings}
                    \cup {[ok |-> FALSE, error |-> "NetworkError"]}
\* What the match on submit_batch's Result<String> tells apart: Ok, Err.
SubmitResults == {"Ok", "SolanaError"}

AddDeposit == \E d \in Deposits, store_ok \in BOOLEAN, o \in ProofOutcomes,
                 update_ok \in BOOLEAN :
                add_deposit(d, store_ok, o, update_ok)
SubmitBatchReturns == \E res \in SubmitResults, k \in 0..MaxBatchSize :
                        submit_batch_returns(res, k)
ClockTick == \E d \in TickSteps : Tick(d)

----------------------------------------------------------------------------
(* batch_manager.rs: a BatchManager under any sequence of calls.  The sealed *)
(* batches it returns are kept, in order, in queue["main"].                  *)

MaxAges == {60, StaleAge}
AccBatchSizes == 0..MaxAccAdds
AccTickSteps == {60, 61}

BatchManagerAdd(deposit, proof) ==
    /\ Len(addLog) < MaxAccAdds
    /\ LET r == add_to_batch(config.batch_size, current_batch["main"], deposit, proof, now)
       IN  /\ current_batch' = [current_batch EXCEPT !["main"] = r.current_batch]
           /\ queue' = [queue EXCEPT !["main"] = enqueue_option(@, r.ret)]
           /\ ret' = [op |-> "add_to_batch", ret |-> r.ret]
    /\ addLog' = Append(addLog, <<deposit, proof>>)
    /\ UNCHANGED <<config, is_running, pc, in_flight, db, now, queueLog, httpVars, chainVars>>

BatchManagerFinalize ==
    /\ LET r == finalize_batch(current_batch["main"])
       IN  /\ current_batch' = [current_batch EXCEPT !["main"] = r.current_batch]
           /\ queue' = [queue EXCEPT !["main"] = enqueue_option(@, r.ret)]
           /\ ret' = [op |-> "finalize_batch", ret |-> r.ret]
    /\ UNCHANGED <<config, is_running, pc, in_flight, db, now, addLog, queueLog, httpVars, chainVars>>

BatchManagerFinalizeIfStale(max_age) ==
    /\ LET r == finalize_if_stale(current_batch["main"], max_age, now)
       IN  /\ current_batch' = [current_batch EXCEPT !["main"] = r.current_batch]
           /\ queue' = [queue EXCEPT !["main"] = enqueue_option(@, r.ret)]
           /\ ret' = [op |-> "finalize_if_stale", max_age |-> max_age, ret |-> r.ret]
    /\ UNCHANGED <<config, is_running, pc, in_flight, db, now, addLog, queueLog, httpVars, chainVars>>

AccAdd == \E d \in Deposits, p \in ProofStrings : BatchManagerAdd(d, p)
AccFinalizeIfStale == \E max_age \in MaxAges : BatchManagerFinalizeIfStale(max_age)
AccTick == \E d \in AccTickSteps : Tick(d)

AccNext == AccAdd \/ BatchManagerFinalize \/ AccFinalizeIfStale \/ AccTick

InitAcc == ChainInit({1}) /\ PipeInit(AccBatchSizes, {0})

AccSpec == InitAcc /\ [][AccNext]_vars

----------------------------------------------------------------------------
(* queue_manager.rs: a QueueManager under any sequence of enqueue_batch and  *)
(* dequeue_batch calls, with the re-enqueue of the dequeued batch by         *)
(* handle_batch_submission_failure.  The queue is queue["task"]; the batch   *)
(* dequeued last is in_flight.                                               *)

QueueBatches ==
    {[deposits |-> <<d>>, proofs |-> <<"mock_proof">>, created_at |-> 0, retry_count |-> 0] :
        d \in Deposits}

QueueEnqueue(batch) ==
    /\ Len(enqueued) < MaxEnqueues
    /\ queue' = [queue EXCEPT !["task"] = enqueue_batch(@, batch)]
    /\ enqueued' = Append(enqueued, batch)
    /\ UNCHANGED <<config, current_batch, is_running, pc, in_flight, db, now, addLog, ret,
                   dequeued, httpVars, chainVars>>

QueueDequeue ==
    /\ LET r == dequeue_batch(queue["task"])
       IN  /\ queue' = [queue EXCEPT !["task"] = r.batches]
           /\ in_flight' = r.ret
           /\ dequeued' = dequeued \o r.ret
           /\ ret' = [op |-> "dequeue_batch", ret |-> r.ret]
    /\ UNCHANGED <<config, current_batch, is_running, pc, db, now, addLog, enqueued,
                   httpVars, chainVars>>

\* The submission of the dequeued batch failed.
QueueFailure(error, k) ==
    /\ in_flight # None
    /\ LET batch == in_flight[1]
           r == handle_batch_submission_failure(config.max_retries, queue["task"], db,
                                                batch, error, k)
       IN  /\ k \in 0..Len(batch.deposits)
           /\ queue' = [queue EXCEPT !["task"] = r.batches]
           /\ db' = r.db
           /\ enqueued' = IF should_retry(config.max_retries, batch.retry_count)
                          THEN Append(enqueued, [batch EXCEPT !.retry_count = @ + 1])
                          ELSE enqueued
    /\ in_flight' = None
    /\ UNCHANGED <<config, current_batch, is_running, pc, now, addLog, ret, dequeued,
                   httpVars, chainVars>>

QueueEnqueueCall == \E b \in QueueBatches : QueueEnqueue(b)
QueueFailureCall == \E k \in 0..1 : QueueFailure("SolanaError", k)

QueueNext == QueueEnqueueCall \/ QueueDequeue \/ QueueFailureCall

InitQueue == ChainInit({1}) /\ PipeInit({1}, 0..MaxRetries)

QueueSpec == InitQueue /\ [][QueueNext]_vars

(* http_server.rs: the add_deposit route.  Each request is a task that locks *)
(* the manager, calls add_deposit on it and drops the guard when it ends.    *)
(* The batch processing task owns a clone and never takes this lock.         *)

\* POST /api/deposits: the route spawns a task for the request.
HttpRequest(h, deposit) ==
    /\ handler[h] = Idle
    /\ Len(addLog) + Cardinality({g \in Handlers : handler[g] # Idle}) < MaxAdds
    /\ handler' = [handler EXCEPT ![h] = [at |-> "lock", deposit |-> deposit]]
    /\ UNCHANGED <<config, current_batch, queue, is_running, pc, in_flight, db, now,
                   addLog, ret, queueLog, mutex, chainVars>>

\* manager.lock().await returns the guard; add_deposit starts with store_deposit.
HttpLock(h) ==
    /\ handler[h].at = "lock"
    /\ mutex = None
    /\ mutex' = Some(h)
    /\ handler' = [handler EXCEPT ![h].at = "store_deposit"]
    /\ UNCHANGED <<config, current_batch, queue, is_running, pc, in_flight, db, now,
                   addLog, ret, queueLog, chainVars>>

\* store_deposit returns.  Err: add_deposit returns it and the task ends;
\* Ok: add_deposit sends the request to the proof service and awaits the response.
HttpStoreReturns(h, store_ok) ==
    /\ handler[h].at = "store_deposit"
    /\ IF store_ok
       THEN /\ db' = store_deposit(db, handler[h].deposit.deposit_id, "pending")
            /\ handler' = [handler EXCEPT ![h].at = "generate_proof"]
            /\ UNCHANGED <<mutex, ret>>
       ELSE /\ handler' = [handler EXCEPT ![h] = Idle]
            /\ mutex' = None
            /\ ret' = [op |-> "add_deposit", proof_ok |-> FALSE, update_ok |-> FALSE,
                       ret |-> "Err"]
            /\ UNCHANGED db
    /\ UNCHANGED <<config, current_batch, queue, is_running, pc, in_flight, now, addLog,
                   queueLog, chainVars>>

\* The mutant of HttpProofReturns: a failed proof generation is returned as Err.
HttpProofReturns_propagates(h, outcome, update_ok) ==
    /\ handler[h].at = "generate_proof"
    /\ LET deposit == handler[h].deposit
       IN  IF ~outcome.ok
           THEN /\ ret' = [op |-> "add_deposit", proof_ok |-> FALSE,
                           update_ok |-> update_ok, ret |-> "Err"]
                /\ UNCHANGED <<db, current_batch, queue, addLog>>
           ELSE LET r == add_to_batch(config.batch_size, current_batch["main"],
                                      deposit, outcome.proof, now)
                IN  /\ current_batch' = [current_batch EXCEPT !["main"] = r.current_batch]
                    /\ queue' = [queue EXCEPT !["main"] = enqueue_option(@, r.ret)]
                    /\ addLog' = Append(addLog, <<deposit, outcome.proof>>)
                    /\ ret' = [op |-> "add_deposit", proof_ok |-> TRUE,
                               update_ok |-> TRUE, ret |-> "Ok"]
                    /\ UNCHANGED db
    /\ handler' = [handler EXCEPT ![h] = Idle]
    /\ mutex' = None
    /\ UNCHANGED <<config, is_running, pc, in_flight, now, queueLog, chainVars>>

\* The proof service answers (or the request fails): the rest of add_deposit.
\* update_ok: the update_deposit_status after a failed proof generation returned
\* Ok.  The task ends and the guard is dropped.
HttpProofReturns(h, outcome, update_ok) ==
    /\ handler[h].at = "generate_proof"
    /\ LET deposit == handler[h].deposit
       IN  IF ~outcome.ok
           THEN /\ db' = IF update_ok
                            THEN update_deposit_status(db, deposit.deposit_id, "failed",
                                                       <<outcome.error>>)
                            ELSE db
                /\ ret' = [op |-> "add_deposit", proof_ok |-> FALSE,
                           update_ok |-> update_ok,
                           ret |-> IF update_ok THEN "Ok" ELSE "Err"]
                /\ UNCHANGED <<current_batch, queue, addLog>>
           ELSE LET r == add_to_batch(config.batch_size, current_batch["main"],
                                      deposit, outcome.proof, now)
                IN  /\ current_batch' = [current_batch EXCEPT !["main"] = r.current_batch]
                    /\ queue' = [queue EXCEPT !["main"] = enqueue_option(@, r.ret)]
                    /\ addLog' = Append(addLog, <<deposit, outcome.proof>>)
                    /\ ret' = [op |-> "add_deposit", proof_ok |-> TRUE,
                               update_ok |-> TRUE, ret |-> "Ok"]
                    /\ UNCHANGED db
    /\ handler' = [handler EXCEPT ![h] = Idle]
    /\ mutex' = None
    /\ UNCHANGED <<config, is_running, pc, in_flight, now, queueLog, chainVars>>

HttpRequestCall == \E h \in Handlers, d \in Deposits : HttpRequest(h, d)
HttpLockCall == \E h \in Handlers : HttpLock(h)
HttpStoreReturnsCall == \E h \in Handlers, store_ok \in BOOLEAN : HttpStoreReturns(h, store_ok)
HttpProofReturnsCall == \E h \in Handlers, o \in ProofOutcomes, update_ok \in BOOLEAN :
                            HttpProofReturns(h, o, update_ok)

HttpNext == HttpRequestCall \/ HttpLockCall \/ HttpStoreReturnsCall \/ HttpProofReturnsCall

InitHttp == ChainInit({1}) /\ PipeInit(BatchSizes, {0})

HttpSpec == InitHttp /\ [][HttpNext]_vars

(* main.rs: the process from its start.  pc = "new": main is about to call   *)
(* SubmissionManager::new; "exited": main has returned its error or panicked. *)

\* The strings main reads for the program id, the bridge account and the key:
\* one that decodes and one that does not.
Identifiers == {"base58", "not base58"}
from_str(s) == s = "base58"

\* Mutant: the bridge account is not parsed.
SubmissionManager_new_bridge_unparsed(cfg, db_ok, metrics_ok) ==
    IF ~db_ok THEN "DatabaseError"
    ELSE IF ~from_str(cfg.verification_key) THEN "panic"
    ELSE IF ~from_str(cfg.solana_program_id) THEN "ConfigurationError"
    ELSE IF ~metrics_ok THEN "MetricsError"
    ELSE "Ok"

\* SubmissionManager::new: DatabaseService::new, then SolanaClient::new (the
\* keypair, the program id, the bridge account), then BridgeMetrics::new.
\* db_ok, metrics_ok: DatabaseService::new, BridgeMetrics::new returned Ok.
SubmissionManager_new(cfg, db_ok, metrics_ok) ==
    IF ~db_ok THEN "DatabaseError"
    ELSE IF ~from_str(cfg.verification_key) THEN "panic"
    ELSE IF ~from_str(cfg.solana_program_id) THEN "ConfigurationError"
    ELSE IF ~from_str(cfg.solana_bridge_account) THEN "ConfigurationError"
    ELSE IF ~metrics_ok THEN "MetricsError"
    ELSE "Ok"

\* main: `SubmissionManager::new(config).await?`
MainNew(db_ok, metrics_ok) ==
    /\ pc = "new"
    /\ LET res == SubmissionManager_new(config, db_ok, metrics_ok)
       IN  /\ pc' = IF res = "Ok" THEN "idle" ELSE "exited"
           /\ ret' = [op |-> "new", db_ok |-> db_ok, ret |-> res]
    /\ UNCHANGED <<config, current_batch, queue, is_running, in_flight, db, now, addLog,
                   queueLog, httpVars, chainVars>>

\* main: `manager.start_http_server().await?` calls start() and then serves.
MainStartHttpServer == pc = "idle" /\ start

\* A request the HTTP server serves.
MainAddDeposit == is_running /\ AddDeposit

MainNewCall == \E db_ok \in BOOLEAN, metrics_ok \in BOOLEAN : MainNew(db_ok, metrics_ok)

\* The task's queue is the copy Clone made in start(), before the first request
\* was served: it is empty, and the loop body never gets to submit_batch.
StartupNext ==
    \/ MainNewCall
    \/ MainStartHttpServer
    \/ MainAddDeposit
    \/ process_queued_batches
    \/ finalize_stale_batch
    \/ ClockTick

InitStartup ==
    /\ ChainInit({1})
    /\ config \in [batch_size : {1}, max_retries : {0}, solana_program_id : Identifiers,
                   solana_bridge_account : Identifiers, verification_key : Identifiers]
    /\ current_batch = [m \in Managers |-> None]
    /\ queue = [m \in Managers |-> <<>>]
    /\ is_running = FALSE
    /\ pc = "new"
    /\ in_flight = None
    /\ db = <<>>
    /\ now = 0
    /\ addLog = <<>>
    /\ ret = NoRet
    /\ enqueued = <<>>
    /\ dequeued = <<>>
    /\ mutex = None
    /\ handler = [h \in Handlers |-> Idle]

StartupSpec == InitStartup /\ [][StartupNext]_vars

Init == ChainInit(Roots) /\ PipeInit({1}, {0})

Next == VerifyTonEventCall \/ UpdateTonRootCall \/ VerifyUpdateCall \/ Confirm

Spec == Init /\ [][Next]_vars

PipeNext ==
    \/ AddDeposit
    \/ finalize_current_batch
    \/ start
    \/ process_queued_batches
    \/ SubmitBatchReturns
    \/ finalize_stale_batch
    \/ ClockTick

InitPipe == ChainInit({1}) /\ PipeInit(BatchSizes, 0..MaxRetries)

PipeSpec == InitPipe /\ [][PipeNext]_vars

\* The task of start_batch_processing is a loop on a tokio interval: each of its
\* steps is taken when it is its turn; submit_batch returns; time passes.
TaskFairness ==
    /\ WF_vars(process_queued_batches)
    /\ WF_vars(SubmitBatchReturns)
    /\ WF_vars(finalize_stale_batch)
    /\ WF_vars(ClockTick)

FairPipeSpec == InitPipe /\ [][PipeNext]_vars /\ TaskFairness

----------------------------------------------------------------------------
(* Properties of the verification program *)

ledgerVars == <<state, verifying_key, nullifier_accounts, event_accounts, emitted>>

IsVerify(c) == c.op = "verify_ton_event"
Args(c) == [proof |-> c.proof, public_inputs |-> c.public_inputs]
AcceptedWith(field, v) == {i \in 1..Len(accepted) : accepted[i].public_inputs[field] = v}

\* C1: for every nullifier at most one verify_ton_event call returns Ok, and a
\* NullifierState account whose consumed flag is set keeps it set in every step.
C1_NullifierConsumedOnce ==
    /\ [](\A n \in Nullifiers : Cardinality(AcceptedWith("nullifier", n)) <= 1)
    /\ [][\A n \in DOMAIN nullifier_accounts :
            nullifier_accounts[n].consumed =>
                (n \in DOMAIN nullifier_accounts' /\ nullifier_accounts'[n].consumed)]_vars

\* A call on a consumed nullifier has been made and was rejected.
C1_Witness ==
    /\ IsVerify(call) /\ call.res = "EventAlreadyConsumed"
    /\ nullifier_accounts[call.public_inputs.nullifier].consumed
    /\ Cardinality(AcceptedWith("nullifier", call.public_inputs.nullifier)) = 1

\* C2: for every event_id at most one verify_ton_event call returns Ok, and an
\* EventState account that holds an event is not written again.
C2_EventCreditedOnce ==
    /\ [](\A i, j \in 1..Len(accepted) :
            accepted[i].public_inputs.event_id = accepted[j].public_inputs.event_id
                => i = j)
    /\ [][\A e \in DOMAIN event_accounts :
            event_accounts[e].consumed =>
                (e \in DOMAIN event_accounts' /\ event_accounts'[e] = event_accounts[e])]_vars

\* C3: a call that repeats an accepted call, with no update_ton_root committed since,
\* returns EventAlreadyConsumed and changes nothing.
C3_RepeatedCallRejected ==
    [][(IsVerify(call') /\ \E i \in (lastUpdate.accepted + 1)..Len(accepted) :
                                accepted[i] = Args(call'))
        => (call'.res = "EventAlreadyConsumed" /\ UNCHANGED ledgerVars)]_vars

\* An accepted call has been repeated.
C3_Witness ==
    /\ IsVerify(call) /\ call.res = "EventAlreadyConsumed"
    /\ \E i \in (lastUpdate.accepted + 1)..Len(accepted) : accepted[i] = Args(call)

\* C4: a verify_ton_event call that returns an error changes no account and emits
\* nothing; a call with amount 0 returns an error.
C4_RejectionHasNoEffect ==
    [][IsVerify(call') =>
        /\ call'.res # "Ok" => UNCHANGED ledgerVars
        /\ ~AmountGtZero(call'.public_inputs.amount_in_ton) => call'.res # "Ok"]_vars

\* A call with amount 0 on a nullifier never seen was rejected; no account exists.
C4_Witness ==
    /\ IsVerify(call) /\ call.res = "InvalidAmount"
    /\ ~AmountGtZero(call.public_inputs.amount_in_ton)
    /\ call.public_inputs.nullifier \notin DOMAIN nullifier_accounts
    /\ call.public_inputs.event_id \notin DOMAIN event_accounts

BoundFields == {"token_id", "amount_in_ton", "recipient_solana", "fee_bps", "vk_version",
                "domain"}
\* q is p with exactly one of the six hashed fields changed, event_id kept.
OneBoundFieldChanged(p, q) ==
    /\ Cardinality({f \in BoundFields : p[f] # q[f]}) = 1
    /\ \A f \in DOMAIN p \ BoundFields : p[f] = q[f]
AuthenticityErrors == {"InvalidAnchorRoot", "InvalidAmount", "InvalidFee", "InvalidEventId"}

\* C5: an accepted call carries the event_id recomputed from its six fields, every
\* EventState account stores the event_id of the accepted call that wrote it, and an
\* accepted call with one of the six fields changed but its event_id kept is rejected
\* with an authenticity error and writes nothing.
C5_EventIdBinding ==
    /\ [](\A i \in 1..Len(accepted) :
            accepted[i].public_inputs.event_id = EventIdOf(accepted[i].public_inputs))
    /\ [](\A e \in DOMAIN event_accounts :
            /\ event_accounts[e].event_id = e
            /\ \E i \in 1..Len(accepted) :
                /\ e = EventIdOf(accepted[i].public_inputs)
                /\ event_accounts[e].amount = accepted[i].public_inputs.amount_in_ton
                /\ event_accounts[e].recipient = accepted[i].public_inputs.recipient_solana)
    /\ [][(IsVerify(call') /\ \E i \in 1..Len(accepted) :
                OneBoundFieldChanged(accepted[i].public_inputs, call'.public_inputs))
            => (call'.res \in AuthenticityErrors /\ UNCHANGED ledgerVars)]_vars

\* An accepted call was repeated with one hashed field changed and was rejected for
\* its event_id.
C5_Witness ==
    /\ IsVerify(call) /\ call.res = "InvalidEventId"
    /\ \E i \in 1..Len(accepted) :
        OneBoundFieldChanged(accepted[i].public_inputs, call.public_inputs)

\* C6: an accepted call carries the root stored when it ran; a call that carries the
\* root replaced by the last update_ton_root, while the stored root differs from it,
\* is rejected with InvalidAnchorRoot.
C6_AnchorRootBinding ==
    [][IsVerify(call') =>
        /\ call'.res = "Ok" => call'.public_inputs.anchor_root = state.ton_state_root
        /\ (/\ lastUpdate.replaced # 0
            /\ lastUpdate.replaced # state.ton_state_root
            /\ call'.public_inputs.anchor_root = lastUpdate.replaced)
           => call'.res = "InvalidAnchorRoot"]_vars

\* The root was replaced by another one and a call carrying the old root was rejected.
C6_Witness ==
    /\ IsVerify(call) /\ call.res = "InvalidAnchorRoot"
    /\ lastUpdate.replaced # 0 /\ lastUpdate.replaced # state.ton_state_root
    /\ call.public_inputs.anchor_root = lastUpdate.replaced
    /\ Dev(call.proof, [call.public_inputs EXCEPT !.anchor_root = state.ton_state_root]) = 0

\* C7: update_ton_root returns Ok exactly for the admin and the relayer; then it
\* stores new_ton_root and changes nothing else; for any other signer it returns
\* UnauthorizedRelayer and changes nothing.
C7_UpdateTonRootAuthorized ==
    [][call'.op = "update_ton_root" =>
        LET allowed == call'.signer = state.admin \/ call'.signer = state.relayer
        IN  /\ call'.res = "Ok" <=> allowed
            /\ allowed => state' = [state EXCEPT !.ton_state_root = call'.new_ton_root]
            /\ ~allowed => (call'.res = "UnauthorizedRelayer" /\ state' = state)
            /\ UNCHANGED <<verifying_key, nullifier_accounts, event_accounts, emitted>>]_vars

\* The relayer has put back a root that an earlier update had replaced.
C7_Witness ==
    /\ call.op = "update_ton_root" /\ call.res = "Ok"
    /\ call.signer = state.relayer /\ call.signer # state.admin
    /\ state.ton_state_root = call.new_ton_root
    /\ lastUpdate.replaced # 0 /\ lastUpdate.replaced # call.new_ton_root
    /\ Len(accepted) > 0 /\ accepted[1].public_inputs.anchor_root = call.new_ton_root

\* C8: last_verified_slot never decreases; verify_update returns Ok only for a larger
\* slot, which it stores; for a slot that is not larger it returns SlotGoesBackwards
\* and keeps the slot; no other instruction changes the slot.
C8_SlotOnlyIncreases ==
    [][/\ state'.last_verified_slot >= state.last_verified_slot
       /\ call'.op = "verify_update" =>
            /\ call'.res = "Ok" =>
                (/\ call'.new_slot > state.last_verified_slot
                 /\ state'.last_verified_slot = call'.new_slot)
            /\ call'.new_slot <= state.last_verified_slot =>
                (/\ call'.res = "SlotGoesBackwards"
                 /\ state'.last_verified_slot = state.last_verified_slot)
       /\ call'.op # "verify_update" =>
            state'.last_verified_slot = state.last_verified_slot]_vars

\* The slot has advanced and a call that would not advance it was rejected.
C8_Witness ==
    /\ call.op = "verify_update" /\ call.res = "SlotGoesBackwards"
    /\ state.last_verified_slot > 0
    /\ call.new_slot = state.last_verified_slot

AmountInRange(a) == AmountGtZero(a) /\ AmountLe(a, MAX_AMOUNT)

\* C9: an accepted call has 0 < amount <= MAX_AMOUNT and fee_bps <= MAX_FEE_BPS, and
\* every EventState account holding an event has an amount in that range.
C9_AmountAndFeeLimits ==
    /\ \A i \in 1..Len(accepted) :
        /\ AmountInRange(accepted[i].public_inputs.amount_in_ton)
        /\ accepted[i].public_inputs.fee_bps <= MAX_FEE_BPS
    /\ \A e \in DOMAIN event_accounts : AmountInRange(event_accounts[e].amount)

\* An event of MAX_AMOUNT is stored and a call above MAX_AMOUNT was rejected.
C9_Witness ==
    /\ IsVerify(call) /\ call.res = "InvalidAmount"
    /\ ~AmountLe(call.public_inputs.amount_in_ton, MAX_AMOUNT)
    /\ \E e \in DOMAIN event_accounts : event_accounts[e].amount = MAX_AMOUNT

----------------------------------------------------------------------------
(* Properties of the submission manager *)

\* Every batch a manager holds: open, queued, or dequeued and being submitted.
AllBatches ==
    {current_batch[m][1] : m \in {n \in Managers : current_batch[n] # None}}
        \cup UNION {{queue[m][i] : i \in 1..Len(queue[m])} : m \in Managers}
        \cup {in_flight[i] : i \in 1..Len(in_flight)}

\* b holds, in order, the pairs of consecutive add_to_batch calls.
AlignedWithAdds(b) ==
    /\ Len(b.deposits) = Len(b.proofs)
    /\ \E k \in 0..(Len(addLog) - Len(b.deposits)) :
         \A i \in 1..Len(b.deposits) : addLog[k + i] = <<b.deposits[i], b.proofs[i]>>

\* C10: in every batch, whether open, queued, being submitted or retried, deposits
\* and proofs have the same length and proofs[i] is the proof passed to add_to_batch
\* together with deposits[i], in the order of the calls.
C10_DepositsAndProofsAligned == \A b \in AllBatches : AlignedWithAdds(b)

\* C10 witness: a batch of two different deposits that came with two different
\* proofs is being submitted by the task while the manager that accumulated it
\* still holds it in its queue.
C10_Witness ==
    /\ in_flight # None
    /\ Len(in_flight[1].deposits) = 2
    /\ in_flight[1].deposits[1] # in_flight[1].deposits[2]
    /\ in_flight[1].proofs[1] # in_flight[1].proofs[2]
    /\ Len(queue["main"]) = 1
    /\ queue["main"][1] = in_flight[1]

----------------------------------------------------------------------------
(* Properties of the BatchManager *)

\* The batches a BatchManager under AccSpec has sealed and returned.
Returned == queue["main"]
Open == current_batch["main"]

\* The step is an add_to_batch call.
AddStep == addLog' # addLog

\* The step is a finalize_if_stale call (that changed the manager or returned
\* something else than the call before it).
FinalizeIfStaleStep ==
    /\ ret'.op = "finalize_if_stale"
    /\ addLog' = addLog
    /\ now' = now

\* C11: for every configured batch_size every sealed batch holds at least one and
\* at most batch_size deposits, a batch sealed by add_to_batch holds exactly
\* batch_size deposits, and an open batch is never empty.
C11_SealedBatchSizes ==
    /\ [](\A i \in 1..Len(Returned) :
            /\ 1 <= Len(Returned[i].deposits)
            /\ Len(Returned[i].deposits) <= config.batch_size)
    /\ [](Open # None => Len(Open[1].deposits) >= 1)
    /\ [][AddStep /\ ret'.ret # None =>
            Len(ret'.ret[1].deposits) = config.batch_size]_vars

\* The batch add_to_batch works on, after the append of the pair it was given.
Grown(cur, pair, t) ==
    IF cur = None
    THEN [deposits |-> <<pair[1]>>, proofs |-> <<pair[2]>>, created_at |-> t,
          retry_count |-> 0]
    ELSE [cur[1] EXCEPT !.deposits = Append(@, pair[1]), !.proofs = Append(@, pair[2])]

\* C12: add_to_batch appends the pair to the open batch, which it creates with
\* retry_count 0 and created_at now when none is open; when the batch has then
\* reached batch_size it is returned and the slot is empty, otherwise None is
\* returned and the open batch is the batch grown by the one pair.
C12_AddAppendsAndSeals ==
    [][AddStep =>
        LET b == Grown(Open, addLog'[Len(addLog')], now)
        IN  IF Len(b.deposits) >= config.batch_size
            THEN ret'.ret = Some(b) /\ Open' = None
            ELSE ret'.ret = None /\ Open' = Some(b)]_vars

\* C12 witness: batch_size 2; the second add returned {[D1, D2], [P1, P2]} of two
\* different pairs and left the slot empty.
C12_Witness ==
    /\ config.batch_size = 2
    /\ Len(addLog) = 2
    /\ addLog[1][1] # addLog[2][1]
    /\ addLog[1][2] # addLog[2][2]
    /\ ret.op = "add_to_batch"
    /\ ret.ret # None
    /\ ret.ret[1].deposits = <<addLog[1][1], addLog[2][1]>>
    /\ ret.ret[1].proofs = <<addLog[1][2], addLog[2][2]>>
    /\ Open = None

\* C13: finalize_if_stale(max_age) returns the open batch and clears the slot
\* exactly when a batch is open and now - created_at > max_age; otherwise it
\* returns None and leaves the slot as it is.  created_at is the time of the add
\* that opened the batch: a later add keeps it.
C13_FinalizeIfStale ==
    /\ [][FinalizeIfStaleStep =>
            IF Open # None /\ now - Open[1].created_at > ret'.max_age
            THEN ret'.ret = Open /\ Open' = None
            ELSE ret'.ret = None /\ Open' = Open]_vars
    /\ [][AddStep =>
            \A b \in {Open'[i] : i \in 1..Len(Open')} \cup {ret'.ret[i] : i \in 1..Len(ret'.ret)} :
                b.created_at = IF Open = None THEN now ELSE Open[1].created_at]_vars

\* C13 witness: a batch of two deposits, the second added 60 s after the first,
\* was returned when its age was one second more than max_age; a call at age
\* max_age is reachable on the way (the clock steps by 60 and 61).
C13_Witness ==
    /\ ret.op = "finalize_if_stale"
    /\ ret.ret # None
    /\ Len(ret.ret[1].deposits) = 2
    /\ now - ret.ret[1].created_at = ret.max_age + 1
    /\ ret.max_age = StaleAge
    /\ Open = None

PairsOf(b) == [i \in 1..Len(b.deposits) |-> <<b.deposits[i], b.proofs[i]>>]

RECURSIVE PairsOfAll(_)
PairsOfAll(batches) ==
    IF batches = <<>> THEN <<>> ELSE PairsOf(Head(batches)) \o PairsOfAll(Tail(batches))

\* C14: whatever the order of add_to_batch, finalize_if_stale and finalize_batch
\* calls, the pairs added so far are, in order and each once, the pairs of the
\* sealed batches followed by those of the one open batch; a sealed batch never
\* changes.
C14_EachPairInOneBatch ==
    /\ [](PairsOfAll(Returned) \o PairsOfAll(Open) = addLog)
    /\ [][\A i \in 1..Len(Returned) : Returned'[i] = Returned[i]]_vars

\* C14 witness: two pairs in a batch sealed by add_to_batch and a third pair in
\* the open batch.
C14_Witness ==
    /\ config.batch_size = 2
    /\ Len(Returned) = 1
    /\ Len(Returned[1].deposits) = 2
    /\ Open # None
    /\ Len(addLog) = 3

----------------------------------------------------------------------------
(* Properties of the QueueManager *)

\* The step is a dequeue_batch call (that returned a batch, or something else
\* than the call before it).
DequeueStep == ret'.op = "dequeue_batch" /\ (ret' # ret \/ dequeued' # dequeued)

\* The step is a failed submission after which the batch was enqueued again.
RetryStep == in_flight # None /\ in_flight' = None /\ enqueued' # enqueued

\* C15: the batches dequeued so far are, in order, the first of the batches
\* enqueued so far, and the queue holds the rest in order; a batch that is
\* retried is enqueued again at the tail; dequeue_batch on an empty queue
\* returns None and changes nothing.
C15_QueueIsFifo ==
    /\ [](dequeued \o queue["task"] = enqueued)
    /\ [][RetryStep =>
            queue'["task"] = Append(queue["task"],
                                    [in_flight[1] EXCEPT !.retry_count = @ + 1])]_vars
    /\ [][DequeueStep /\ queue["task"] = <<>> =>
            ret'.ret = None /\ queue' = queue /\ dequeued' = dequeued]_vars

\* C15 witness: a batch was dequeued, failed and was enqueued again behind a
\* batch enqueued before that; the other batch was dequeued next, the retried
\* batch after it.
C15_Witness ==
    /\ Len(dequeued) = 3
    /\ dequeued[1].deposits # dequeued[2].deposits
    /\ dequeued[2].retry_count = 0
    /\ dequeued[3] = [dequeued[1] EXCEPT !.retry_count = 1]
    /\ enqueued = dequeued

----------------------------------------------------------------------------
(* Properties of the submission pipeline *)

\* The step is the return of submit_batch to process_queued_batches.
SubmitReturnStep == pc = "submit" /\ pc' = "sweep"
SubmitFailedStep == SubmitReturnStep /\ ret'.ret # "Ok"
SubmitOkStep == SubmitReturnStep /\ ret'.ret = "Ok"

DepositIdsOf(batch) == {batch.deposits[i].deposit_id : i \in 1..Len(batch.deposits)}
StatusOf(table, id) == IF id \in DOMAIN table THEN table[id].status ELSE "none"

C18_RetryCount ==
    /\ [](\A b \in AllBatches : b.retry_count <= config.max_retries)
    /\ [](\A m \in Managers : current_batch[m] # None => current_batch[m][1].retry_count = 0)
    /\ [](\A i \in 1..Len(queue["main"]) : queue["main"][i].retry_count = 0)
    /\ [][pc # "idle" =>
            \/ queue'["task"] = queue["task"]
            \/ /\ queue["task"] # <<>>
               /\ queue'["task"] = Tail(queue["task"])
               /\ in_flight' = Some(Head(queue["task"]))
            \/ /\ SubmitFailedStep
               /\ queue'["task"] = Append(queue["task"],
                                          [in_flight[1] EXCEPT !.retry_count = @ + 1])]_vars

\* C18 witness: a batch that has been retried max_retries >= 1 times is being
\* submitted.
C18_Witness ==
    /\ config.max_retries >= 1
    /\ in_flight # None
    /\ in_flight[1].retry_count = config.max_retries
    /\ pc = "submit"

\* C19: when submit_batch returns Ok, every deposit of the batch is completed
\* afterwards, the queue is as before, and the status of no other deposit has
\* changed.
C19_SuccessCompletesBatch ==
    [][SubmitOkStep =>
        /\ \A id \in DepositIdsOf(in_flight[1]) : StatusOf(db', id) = "completed"
        /\ queue' = queue
        /\ DOMAIN db' = DOMAIN db
        /\ \A id \in DOMAIN db \ DepositIdsOf(in_flight[1]) : db'[id] = db[id]]_vars

\* C20: a deposit of the batch that was being submitted is, when the submission
\* has returned, in a batch of the queue or has a terminal status in the deposit
\* store (completed, or failed with a cause), also when an update of the deposit
\* store fails.
C20_NoWorkLost ==
    [][SubmitReturnStep =>
        \A id \in DepositIdsOf(in_flight[1]) :
            \/ \E i \in 1..Len(queue'["task"]) : id \in DepositIdsOf(queue'["task"][i])
            \/ StatusOf(db', id) = "completed"
            \/ StatusOf(db', id) = "failed" /\ db'[id].error_message # None]_vars

----------------------------------------------------------------------------
(* The pipeline under fair scheduling of the background task.               *)

Terminal(id) == StatusOf(db, id) \in {"completed", "failed"}

\* C21: once the background loop runs, a sealed batch that add_deposit or a
\* manual flush has enqueued is eventually taken by the loop, and each of its
\* deposits eventually has a terminal status (completed or failed).
C21_EnqueuedBatchIsProcessed ==
    \A i \in 1..MaxAdds :
        (is_running /\ Len(queue["main"]) >= i)
            ~> (/\ Len(queue["main"]) >= i
                /\ \A id \in DepositIdsOf(queue["main"][i]) : Terminal(id))

\* C22: once the background loop runs, an open batch older than the staleness
\* limit does not stay open: the sweep seals it.
StaleOpen ==
    /\ is_running
    /\ Open # None
    /\ now - Open[1].created_at > StaleAge

C22_StaleOpenBatchIsSealed == StaleOpen ~> ~StaleOpen

\* The places (batch, position) of the ingesting manager's batches, open or
\* queued, that hold deposit_id id.
PlacesOf(id) ==
    {<<0, j>> : j \in {n \in 1..Len(IF Open = None THEN <<>> ELSE Open[1].deposits) :
                          Open[1].deposits[n].deposit_id = id}}
        \cup UNION {{<<i, j>> : j \in {n \in 1..Len(Returned[i].deposits) :
                                          Returned[i].deposits[n].deposit_id = id}} :
                    i \in 1..Len(Returned)}

\* C23: whatever add_deposit calls were made, re-submissions of an accepted
\* deposit_id included, a deposit_id is in at most one batch and at one position.
C23_DepositInOneBatch == \A id \in DepositIds : Cardinality(PlacesOf(id)) <= 1

----------------------------------------------------------------------------
(* Properties of the HTTP request tasks *)

\* C24: a task that is waiting for the answer of the proof service does not hold
\* the lock that guards the accumulator and the queue.
C24_NoLockAcrossNetworkIO ==
    \A h \in Handlers : handler[h].at = "generate_proof" => mutex # Some(h)

\* The request task h ends an add_deposit whose proof generation failed.
ProofFailedStep(h) ==
    /\ handler[h].at = "generate_proof"
    /\ handler'[h] = Idle
    /\ ~ret'.proof_ok

----------------------------------------------------------------------------
(* Properties of the batch processing task *)

\* C25: while a submission has not returned, the staleness sweep can still take
\* place and add_deposit can still be called: the submission delays neither.
C25_SubmissionDelaysNothing ==
    (is_running /\ pc = "submit") =>
        /\ ENABLED finalize_stale_batch
        /\ Len(addLog) < MaxAdds => ENABLED AddDeposit

\* C26: when a submission has returned, the statuses of the deposits of its
\* batch are all completed, or all failed, or all as they were before, also
\* when an update of the deposit store fails.
C26_BatchTransitionAllOrNothing ==
    [][SubmitReturnStep =>
        LET ids == DepositIdsOf(in_flight[1])
        IN  \/ \A id \in ids : StatusOf(db', id) = "completed"
            \/ \A id \in ids : StatusOf(db', id) = "failed"
            \/ \A id \in ids : StatusOf(db', id) = StatusOf(db, id)]_vars

\* C28: a tick of the task takes at most one batch from the queue, the first,
\* and submits it once: after the submission has returned the task goes on to
\* the sweep and dequeues again only in the next tick.  With an empty queue the
\* tick submits nothing and changes neither the queue nor the deposit store.
C28_OneBatchPerTick ==
    [][/\ (pc = "process" /\ pc' # "process") =>
            /\ db' = db
            /\ IF queue["task"] = <<>>
               THEN pc' = "sweep" /\ in_flight' = None /\ queue' = queue
               ELSE /\ pc' = "submit"
                    /\ in_flight' = Some(Head(queue["task"]))
                    /\ queue' = [queue EXCEPT !["task"] = Tail(@)]
       /\ (pc = "submit" /\ pc' # "submit") => pc' = "sweep" /\ in_flight' = None
       /\ (pc = "sweep" /\ pc' # "sweep") =>
            pc' = "process" /\ in_flight' = None /\ db' = db]_vars

\* C28 witness: the first tick has taken the first of two queued batches and is
\* submitting it; the second batch is still in the queue.
C28_Witness ==
    /\ pc = "submit"
    /\ in_flight # None
    /\ Len(queue["task"]) = 1
    /\ in_flight[1].retry_count = 0 /\ queue["task"][1].retry_count = 0
    /\ ret = NoRet

\* C29: the statistics of the manager: pending is the number of deposits in the
\* queued batches, completed is the number of deposits whose stored status is
\* completed, and total is at least pending + completed.
C29_StatsFromQueueAndStore ==
    LET stats == get_queue_stats(Returned)
    IN  /\ stats.pending = Cardinality({<<i, j>> \in (1..MaxAdds) \X (1..MaxAdds) :
                                          i <= Len(Returned) /\ j <= Len(Returned[i].deposits)})
        /\ stats.completed = Cardinality({id \in DOMAIN db : db[id].status = "completed"})
        /\ stats.total >= stats.pending + stats.completed

----------------------------------------------------------------------------
(* Frame of verify_ton_event *)

\* C30: a verify_ton_event that returns Ok leaves the nullifier's account as
\* {consumed, nullifier, ton_tx_hash} and the event's account as {consumed,
\* event_id, recipient, amount, ton_tx_hash, ton_sender} of its public inputs,
\* emits one TonEventVerified with the five event fields, and changes neither
\* the light client state, the verifying key, nor any other nullifier or event
\* account.
C30_VerifyTonEventFrame ==
    [][(call = NoCall /\ IsVerify(call') /\ call'.res = "Ok") =>
        LET pi == call'.public_inputs
        IN  /\ pi.nullifier \in DOMAIN nullifier_accounts'
            /\ nullifier_accounts'[pi.nullifier] =
                    [consumed |-> TRUE, nullifier |-> pi.nullifier,
                     ton_tx_hash |-> pi.ton_tx_hash]
            /\ pi.event_id \in DOMAIN event_accounts'
            /\ event_accounts'[pi.event_id] =
                    [consumed |-> TRUE, event_id |-> pi.event_id,
                     recipient |-> pi.recipient_solana, amount |-> pi.amount_in_ton,
                     ton_tx_hash |-> pi.ton_tx_hash, ton_sender |-> pi.ton_sender]
            /\ emitted' = Append(emitted,
                    [event_id |-> pi.event_id, recipient |-> pi.recipient_solana,
                     amount |-> pi.amount_in_ton, ton_tx_hash |-> pi.ton_tx_hash,
                     ton_sender |-> pi.ton_sender])
            /\ state' = state
            /\ verifying_key' = verifying_key
            /\ DOMAIN nullifier_accounts' = DOMAIN nullifier_accounts \cup {pi.nullifier}
            /\ DOMAIN event_accounts' = DOMAIN event_accounts \cup {pi.event_id}
            /\ \A n \in DOMAIN nullifier_accounts \ {pi.nullifier} :
                    nullifier_accounts'[n] = nullifier_accounts[n]
            /\ \A e \in DOMAIN event_accounts \ {pi.event_id} :
                    event_accounts'[e] = event_accounts[e]]_vars

\* C30 witness: a second event has been accepted: the accounts of the first are
\* there, consumed, beside those of the call that has just returned Ok.
C30_Witness ==
    /\ IsVerify(call) /\ call.res = "Ok"
    /\ Len(emitted) = 2
    /\ emitted[2].event_id = call.public_inputs.event_id
    /\ \E n \in DOMAIN nullifier_accounts :
         n # call.public_inputs.nullifier /\ nullifier_accounts[n].consumed
    /\ \E e \in DOMAIN event_accounts :
         e # call.public_inputs.event_id /\ event_accounts[e].consumed

----------------------------------------------------------------------------
(* Further properties of the light client program *)

\* C31: a verify_ton_event call is accepted only with the vk_version of the
\* stored verifying key, the vk_id that init_state recorded.
C31_VkVersionIdentifiesKey ==
    \A i \in 1..Len(accepted) : accepted[i].public_inputs.vk_version = verifying_key.vk_id

----------------------------------------------------------------------------
(* Further properties of the BatchManager *)

\* The step is a finalize_batch call.
FinalizeStep ==
    /\ ret'.op = "finalize_batch"
    /\ addLog' = addLog
    /\ now' = now

\* C32: finalize_batch returns the open batch, whatever its size and age, and
\* leaves the slot empty; with no open batch it returns None.  An add_to_batch
\* on an empty slot makes a batch of that one pair, with retry_count 0 and
\* created_at the time of the call.
C32_FinalizeBatch ==
    /\ [][FinalizeStep => ret'.ret = Open /\ Open' = None]_vars
    /\ [][(AddStep /\ Open = None) =>
            \A b \in {Open'[i] : i \in 1..Len(Open')} \cup {ret'.ret[i] : i \in 1..Len(ret'.ret)} :
                b = [deposits |-> <<addLog'[Len(addLog')][1]>>,
                     proofs |-> <<addLog'[Len(addLog')][2]>>,
                     created_at |-> now, retry_count |-> 0]]_vars

\* C32 witness: a batch of one deposit, below batch_size and too young for the
\* staleness sweep, has been returned by finalize_batch, and the add after it
\* has opened a batch of its own one deposit with a later created_at.
C32_Witness ==
    /\ config.batch_size >= 2
    /\ Len(Returned) = 1 /\ Len(Returned[1].deposits) = 1
    /\ Open # None
    /\ Len(Open[1].deposits) = 1
    /\ Open[1].deposits[1] # Returned[1].deposits[1]
    /\ Open[1].retry_count = 0
    /\ Open[1].created_at - Returned[1].created_at = 60
    /\ ret.op = "add_to_batch"

----------------------------------------------------------------------------
(* Order of the checks of verify_ton_event *)

\* The checks of a call in the order of the interface, each with the condition
\* under which it fails and its error.
ChecksInOrder(proof, pi, root, consumed) ==
    << <<pi.anchor_root # root, "InvalidAnchorRoot">>,
       <<~AmountInRange(pi.amount_in_ton), "InvalidAmount">>,
       <<pi.fee_bps > MAX_FEE_BPS, "InvalidFee">>,
       <<pi.event_id # EventIdOf(pi), "InvalidEventId">>,
       <<AllBytes(proof.a, 0) \/ AllBytes(proof.b, 0) \/ AllBytes(proof.c, 0), "BadProof">>,
       <<pi.nullifier = ZERO32, "InvalidNullifier">>,
       <<pi.ton_tx_hash = ZERO32, "InvalidTonTxHash">>,
       <<consumed, "EventAlreadyConsumed">> >>

FailingChecks(checks) == {i \in 1..Len(checks) : checks[i][1]}

RECURSIVE FirstFrom(_, _)
FirstFrom(checks, i) ==
    IF i > Len(checks) THEN "Ok"
    ELSE IF checks[i][1] THEN checks[i][2]
    ELSE FirstFrom(checks, i + 1)

FirstError(checks) == FirstFrom(checks, 1)

\* C33: a verify_ton_event call returns the error of the first check that fails,
\* in the order anchor root, amount, fee, event id, proof elements, nullifier,
\* tx hash, consumed nullifier; it returns Ok when none fails.
C33_FirstFailingCheck ==
    [][(call = NoCall /\ IsVerify(call')) =>
        call'.res = FirstError(ChecksInOrder(call'.proof, call'.public_inputs,
                        state.ton_state_root,
                        /\ call'.public_inputs.nullifier \in DOMAIN nullifier_accounts
                        /\ nullifier_accounts[call'.public_inputs.nullifier].consumed))]_vars

\* C33 witness: a call with a wrong anchor root and an all-zero proof element was
\* rejected with InvalidAnchorRoot.
C33_Witness ==
    /\ IsVerify(call)
    /\ call.res = "InvalidAnchorRoot"
    /\ AllBytes(call.proof.a, 0)
    /\ Cardinality(FailingChecks(ChecksInOrder(call.proof, call.public_inputs,
                                               state.ton_state_root, FALSE))) >= 2

----------------------------------------------------------------------------
(* Source events and nullifiers *)

\* C34: whatever nullifiers the callers supply, at most one verify_ton_event
\* call returns Ok for a source event (ton_tx_hash, ton_sender).
C34_SourceEventClaimedOnce ==
    \A i, j \in 1..Len(accepted) :
        (/\ accepted[i].public_inputs.ton_tx_hash = accepted[j].public_inputs.ton_tx_hash
         /\ accepted[i].public_inputs.ton_sender = accepted[j].public_inputs.ton_sender)
            => i = j

----------------------------------------------------------------------------
(* Further properties of the pipeline *)

\* What of a sealed batch is its content: all but retry_count.
Content(b) == [deposits |-> b.deposits, proofs |-> b.proofs, created_at |-> b.created_at]

\* The sealed batches of the task: queued, or dequeued and being submitted.
TaskBatches ==
    {queue["task"][i] : i \in 1..Len(queue["task"])} \cup {in_flight[i] : i \in 1..Len(in_flight)}

\* C35: a sealed batch keeps its deposits, proofs and created_at: a batch in the
\* queue of the ingesting manager stays as it is, and every batch the task holds
\* after a step (queued, dequeued, re-enqueued for a retry) has the content of a
\* batch it held before the step, or, when the task starts, of a queued batch.
C35_SealedBatchFrozen ==
    [][/\ \A i \in 1..Len(Returned) :
            i <= Len(Returned') /\ Returned'[i] = Returned[i]
       /\ \A b \in TaskBatches' :
            \E a \in TaskBatches \cup (IF is_running THEN {}
                                       ELSE {Returned[i] : i \in 1..Len(Returned)}) :
                Content(b) = Content(a)]_vars

\* C35 witness: a batch of two deposits is being submitted again after a failed
\* submission, with the deposits, proofs and created_at it was sealed with.
C35_Witness ==
    /\ pc = "submit"
    /\ in_flight # None
    /\ in_flight[1].retry_count = 1
    /\ Len(in_flight[1].deposits) = 2
    /\ Returned # <<>>
    /\ in_flight[1] = [Returned[1] EXCEPT !.retry_count = 1]

\* C36: a deposit whose stored status is completed or failed keeps that status
\* in every later step, a repeated add_deposit of its deposit_id and the
\* outcome of a later batch included.
C36_TerminalStatusPermanent ==
    [][\A id \in DOMAIN db :
        db[id].status \in {"completed", "failed"} =>
            (id \in DOMAIN db' /\ db'[id].status = db[id].status)]_vars

----------------------------------------------------------------------------
(* Startup *)

----------------------------------------------------------------------------
(* Attempts per batch *)

\* The entries of a history of batches with the content c.
EntriesOf(history, c) == {i \in 1..Len(history) : Content(history[i]) = c}

\* C38: a batch is dequeued for submission at most max_retries + 1 times for
\* each time it was enqueued as a new batch; with max_retries = 0 no batch is
\* ever enqueued again after a failed submission.
C38_BoundedAttempts ==
    /\ \A c \in {Content(b) : b \in QueueBatches} :
         Cardinality(EntriesOf(dequeued, c)) <=
            (config.max_retries + 1)
                * Cardinality({i \in EntriesOf(enqueued, c) : enqueued[i].retry_count = 0})
    /\ config.max_retries = 0 => \A i \in 1..Len(enqueued) : enqueued[i].retry_count = 0

\* C38 witness: max_retries = 1; a batch enqueued once was submitted twice,
\* failed twice and is not in the queue any more.
C38_Witness ==
    /\ config.max_retries = 1
    /\ Len(dequeued) = 2
    /\ Len(enqueued) = 2
    /\ Content(dequeued[1]) = Content(dequeued[2])
    /\ dequeued[2].retry_count = 1
    /\ in_flight = None
    /\ queue["task"] = <<>>

====
